---- MODULE Spec2Model ----
(***************************************************************************)
(* A model of japanese/helpers/file_ops.py: the parent-path walker, touch  *)
(* and rm_file, the memoized user-data-directory resolver and the file     *)
(* opener, over a small POSIX-like filesystem and process environment.     *)
(***************************************************************************)
EXTENDS Integers, Sequences, FiniteSets, TLC

VARIABLES
    fs,        \* the filesystem: [dirs, files, links, ro]
    env,       \* os.environ: variable name -> [set, s]
    platform,  \* sys.platform of this process
    execs,     \* names find_executable can discover on the search path
    clock,     \* the system clock os.utime(path, None) reads
    cache,     \* functools.cache of user_files_dir: NoPath while empty
    rets,      \* history: every path user_files_dir has returned in this process
    pc,        \* "idle", or "returned" / "raised" right after a call
    call,      \* the call that just completed (Idle while pc = "idle")
    launched,  \* the launch calls the last open_file made, in order
    touched,   \* the path touch last succeeded on, while nothing else changed since
    wp         \* the walk_parents generator: [pc, arg, cur, out]

vars == <<fs, env, platform, execs, clock, cache, rets, pc, call, launched, touched, wp>>

----------------------------------------------------------------------------
(* Paths are pathlib's parts: <<"/", "tmp", "xdg">> is /tmp/xdg, <<>> is   *)
(* ".", <<"~", "c">> is ~/c.  Strings that name paths are token sequences  *)
(* that may still hold "" (a doubled or trailing slash) and "." tokens.    *)

Root == <<"/">>

NoPath == <<"<none>">>

\* The bound on symbolic-link hops of one path resolution (SYMLOOP_MAX).
LinkFuel == 2

\* The largest clock value and file length the model explores.
MaxClock == 2

MaxData == 1

IsAbs(p) == Len(p) > 0 /\ p[1] = "/"

\* pathlib.Path(s): empty and "." tokens are dropped.
PathOf(s) == SelectSeq(s, LAMBDA t : t \notin {"", "."})

\* str(p) of a path: its parts (already normal).
StrOf(p) == p

\* PurePath.parent: the root and "." are their own parents.
Parent(p) == IF Len(p) = 0 \/ p = Root THEN p ELSE SubSeq(p, 1, Len(p) - 1)

\* PurePath.__truediv__ / joinpath with a relative name.
Join(p, name) == Append(p, name)

Last(s) == s[Len(s)]

----------------------------------------------------------------------------
(* The filesystem.  dirs and the domain of files hold canonical absolute   *)
(* paths; links maps the place of a symbolic link to its target; ro holds  *)
(* the canonical paths the process may not write.                          *)

Cwd == <<"/", "w">>

Home == <<"/", "h">>

Exists(f, c) == c \in f.dirs \/ c \in DOMAIN f.files \/ c \in DOMAIN f.links

\* Path resolution from directory cur over the components rest; follow says
\* whether a symbolic link in the last component is followed (stat) or not
\* (lstat, unlink, mkdir).  The result names the canonical path, or the errno.
RECURSIVE Walk(_, _, _, _, _)
Walk(f, cur, rest, fuel, follow) ==
    IF rest = <<>> THEN [err |-> "ok", path |-> cur]
    ELSE IF cur \notin f.dirs THEN [err |-> "ENOTDIR", path |-> cur]
    ELSE LET c == Head(rest)
             more == Tail(rest)
             nxt == Append(cur, c)
         IN  IF c = ".." THEN Walk(f, Parent(cur), more, fuel, follow)
             ELSE IF nxt \in DOMAIN f.links /\ (more # <<>> \/ follow)
             THEN IF fuel = 0 THEN [err |-> "ELOOP", path |-> nxt]
                  ELSE LET t == f.links[nxt]
                       IN  IF IsAbs(t)
                           THEN Walk(f, Root, Tail(t) \o more, fuel - 1, follow)
                           ELSE Walk(f, cur, t \o more, fuel - 1, follow)
             ELSE IF Exists(f, nxt) THEN Walk(f, nxt, more, fuel, follow)
             ELSE IF more = <<>> THEN [err |-> "ENOENT", path |-> nxt]
             ELSE [err |-> "ENOENT", path |-> NoPath]

Resolve(f, p, follow) ==
    IF IsAbs(p) THEN Walk(f, Root, Tail(p), LinkFuel, follow)
    ELSE Walk(f, Cwd, p, LinkFuel, follow)

\* os.stat(p): the canonical path of an existing file or directory, or an errno.
Stat(f, p) == Resolve(f, p, TRUE)

\* Path.is_dir(): False on any stat error.
IsDir(f, p) == LET r == Stat(f, p) IN r.err = "ok" /\ r.path \in f.dirs

\* Path.is_file() / os.path.isfile.
IsFile(f, p) == LET r == Stat(f, p) IN r.err = "ok" /\ r.path \in DOMAIN f.files

\* os.path.lexists(p): p names something, a dangling link included.
LExists(f, p) == Resolve(f, p, FALSE).err = "ok"

\* Path.samefile(q): "raise" when either stat fails, else whether both are one file.
SameFile(f, p, q) ==
    LET a == Stat(f, p)
        b == Stat(f, q)
    IN  IF a.err # "ok" \/ b.err # "ok" THEN "raise"
        ELSE IF a.path = b.path THEN "same" ELSE "differ"

----------------------------------------------------------------------------
(* Operations of the operating system and of pathlib.  Each yields the new *)
(* filesystem and "ok" or the errno of the exception raised.               *)

Done(f, e) == [f |-> f, err |-> e]

\* os.mkdir(p): the last component is not followed; whatever is there is EEXIST.
OsMkdir(f, p) ==
    LET r == Resolve(f, p, FALSE)
    IN  IF r.err = "ok" THEN Done(f, "EEXIST")
        ELSE IF r.err = "ENOENT" /\ r.path # NoPath
        THEN IF Parent(r.path) \in f.ro THEN Done(f, "EACCES")
             ELSE Done([f EXCEPT !.dirs = @ \cup {r.path}], "ok")
        ELSE Done(f, r.err)

\* Path.mkdir(parents=False, exist_ok=True): FileNotFoundError is raised, any
\* other OSError is swallowed when the path is a directory.
MkdirExistOk(f, p) ==
    LET r == OsMkdir(f, p)
    IN  IF r.err \in {"ok", "ENOENT"} THEN r
        ELSE IF IsDir(f, p) THEN Done(f, "ok") ELSE r

\* mkdir without parents=True: a missing parent is an error.
MkdirLeafOnly(f, p) == MkdirExistOk(f, p)

\* Path.mkdir(parents=True, exist_ok=True), lines 87 and 92.
RECURSIVE MkdirParents(_, _)
MkdirParents(f, p) ==
    LET r == OsMkdir(f, p)
    IN  IF r.err = "ok" THEN r
        ELSE IF r.err = "ENOENT"
        THEN IF Parent(p) = p THEN r
             ELSE LET up == MkdirParents(f, Parent(p))
                  IN  IF up.err # "ok" THEN up ELSE MkdirExistOk(up.f, p)
        ELSE IF IsDir(f, p) THEN Done(f, "ok") ELSE r

\* open(path, "a"): the file is created empty when absent and never truncated.
OpenAppend(f, p) ==
    LET r == Stat(f, p)
    IN  IF r.err = "ok"
        THEN IF r.path \in f.dirs THEN Done(f, "EISDIR")
             ELSE IF r.path \in f.ro THEN Done(f, "EACCES")
             ELSE Done(f, "ok")
        ELSE IF r.err = "ENOENT" /\ r.path # NoPath
        THEN IF Parent(r.path) \in f.ro THEN Done(f, "EACCES")
             ELSE Done([f EXCEPT !.files = (r.path :> [data |-> <<>>, mtime |-> 0]) @@ @], "ok")
        ELSE Done(f, r.err)

\* open(path, "w") would truncate: the bug OpenAppend must not have.
OpenTruncate(f, p) ==
    LET r == OpenAppend(f, p)
        s == Stat(r.f, p)
    IN  IF r.err = "ok"
        THEN Done([r.f EXCEPT !.files[s.path].data = <<>>], "ok")
        ELSE r

\* os.utime(path, None): the timestamps become the current time.
Utime(f, p, now) ==
    LET r == Stat(f, p)
    IN  IF r.err # "ok" THEN Done(f, r.err)
        ELSE IF r.path \in DOMAIN f.files
        THEN Done([f EXCEPT !.files[r.path].mtime = now], "ok")
        ELSE Done(f, "ok")

\* touch written with mode "w": an existing file would lose its content.
touchTruncating(f, p, now) ==
    LET o == OpenTruncate(f, p)
    IN  IF o.err # "ok" THEN o ELSE Utime(o.f, p, now)

\* touch, lines 28-30: os.utime runs inside the with block, after open succeeded.
touch(f, p, now) ==
    LET o == OpenAppend(f, p)
    IN  IF o.err # "ok" THEN o ELSE Utime(o.f, p, now)

\* os.unlink(path): removes a file or the link itself, never a directory.
OsUnlink(f, p) ==
    LET r == Resolve(f, p, FALSE)
    IN  IF r.err # "ok" THEN Done(f, r.err)
        ELSE IF r.path \in f.dirs THEN Done(f, "EISDIR")
        ELSE IF Parent(r.path) \in f.ro THEN Done(f, "EACCES")
        ELSE Done([f EXCEPT
                     !.files = [q \in DOMAIN @ \ {r.path} |-> @[q]],
                     !.links = [q \in DOMAIN @ \ {r.path} |-> @[q]],
                     !.ro = @ \ {r.path}], "ok")

\* rm_file, lines 33-37: only FileNotFoundError (ENOENT) is swallowed.
rm_file(f, p) ==
    LET r == OsUnlink(f, p)
    IN  IF r.err = "ENOENT" THEN Done(f, "ok") ELSE r

----------------------------------------------------------------------------
(* os.environ: each variable is unset (None) or holds a string.            *)

Unset == [set |-> FALSE, s |-> <<>>]

Str(tokens) == [set |-> TRUE, s |-> tokens]

\* The values the environment gives each variable the resolver reads.
EnvValues ==
    [ AJT_USER_FILES_DIR      |-> {Unset, Str(<<>>), Str(<<"/", "tmp", "custom">>), Str(<<"~", "custom">>)},
      AJT_USE_REPO_USER_FILES |-> {Unset, Str(<<"1">>), Str(<<"0">>)},
      XDG_STATE_HOME          |-> {Unset, Str(<<>>), Str(<<"/", "s", "">>)},
      XDG_DATA_HOME           |-> {Unset, Str(<<>>), Str(<<"/", "tmp", "xdg">>)},
      APPDATA                 |-> {Unset, Str(<<>>), Str(<<"/", "ad">>)},
      TERMINAL                |-> {Unset, Str(<<>>), Str(<<"st">>)},
      FILE                    |-> {Unset, Str(<<>>), Str(<<"nnn">>)} ]

EnvNames == DOMAIN EnvValues

DirVars == {"AJT_USER_FILES_DIR", "AJT_USE_REPO_USER_FILES", "XDG_STATE_HOME",
            "XDG_DATA_HOME", "APPDATA"}

AllUnset == [n \in EnvNames |-> Unset]

----------------------------------------------------------------------------
(* The caller.  A call runs to completion in one step and leaves pc at     *)
(* "returned" or "raised" with the call recorded; Ack is the caller going  *)
(* on.  The environment acts only between calls.                           *)

NoFs == [dirs |-> {}, files |-> <<>>, links |-> <<>>, ro |-> {}]

IdleCall ==
    [op |-> "none", arg |-> NoPath, ret |-> NoPath, err |-> "ok", pre |-> NoFs,
     hit |-> FALSE, trace |-> <<>>, pdir |-> NoPath, again |-> FALSE]

NoWalk == [pc |-> "off", arg |-> NoPath, cur |-> NoPath, out |-> <<>>]

Outcome(e) == IF e = "ok" THEN "returned" ELSE "raised"

Ack ==
    /\ pc # "idle"
    /\ pc' = "idle"
    /\ call' = IdleCall
    /\ launched' = <<>>
    /\ UNCHANGED <<fs, env, platform, execs, clock, cache, rets, touched, wp>>

----------------------------------------------------------------------------
(* touch and rm_file under an environment that advances the clock, writes  *)
(* to files and changes permissions.                                       *)

D == <<"/", "d">>

Q == <<"/", "q">>

FilesFs ==
    [dirs  |-> {Root, Cwd, D, Q},
     files |-> (Join(D, "f") :> [data |-> <<"x">>, mtime |-> 0])
               @@ (Join(Q, "k") :> [data |-> <<>>, mtime |-> 0]),
     links |-> (Join(D, "l") :> <<"f">>),
     ro    |-> {Q}]

\* The paths touch and rm_file are called with.
FileArgs ==
    { Join(D, "f"), Join(D, "g"), Join(Join(D, "f"), "x"), <<"/", "n", "x">>, D,
      Join(Q, "k"), Join(Q, "g"), Join(D, "l") }

\* The files other programs write to and change the mode of.
ExtFiles == { Join(D, "f") }

Touch(p) ==
    /\ pc = "idle"
    /\ LET r == touch(fs, p, clock)
       IN  /\ fs' = r.f
           /\ pc' = Outcome(r.err)
           /\ call' = [IdleCall EXCEPT !.op = "touch", !.arg = p, !.err = r.err,
                                       !.pre = fs, !.again = (touched = p)]
           /\ touched' = IF r.err = "ok" THEN p ELSE NoPath
    /\ UNCHANGED <<env, platform, execs, clock, cache, rets, launched, wp>>

RmFile(p) ==
    /\ pc = "idle"
    /\ LET r == rm_file(fs, p)
       IN  /\ fs' = r.f
           /\ pc' = Outcome(r.err)
           /\ call' = [IdleCall EXCEPT !.op = "rm_file", !.arg = p, !.err = r.err,
                                       !.pre = fs]
    /\ touched' = NoPath
    /\ UNCHANGED <<env, platform, execs, clock, cache, rets, launched, wp>>

\* Time passes: the clock does not run backwards.
Tick ==
    /\ pc = "idle"
    /\ clock < MaxClock
    /\ clock' = clock + 1
    /\ UNCHANGED <<fs, env, platform, execs, cache, rets, pc, call, launched, touched, wp>>

\* Another program appends to a file.
ExtAppend(p) ==
    /\ pc = "idle"
    /\ p \in DOMAIN fs.files
    /\ Len(fs.files[p].data) < MaxData
    /\ fs' = [fs EXCEPT !.files[p].data = Append(@, "x"), !.files[p].mtime = clock]
    /\ touched' = NoPath
    /\ UNCHANGED <<env, platform, execs, clock, cache, rets, pc, call, launched, wp>>

\* chmod: a file or directory becomes read-only or writable again.
ExtChmod(p) ==
    /\ pc = "idle"
    /\ p \in DOMAIN fs.files \cup fs.dirs
    /\ fs' = [fs EXCEPT !.ro = IF p \in @ THEN @ \ {p} ELSE @ \cup {p}]
    /\ touched' = NoPath
    /\ UNCHANGED <<env, platform, execs, clock, cache, rets, pc, call, launched, wp>>

InitFiles ==
    /\ fs = FilesFs
    /\ env = AllUnset
    /\ platform = "linux"
    /\ execs = {}
    /\ clock = 0
    /\ cache = NoPath
    /\ rets = {}
    /\ pc = "idle"
    /\ call = IdleCall
    /\ launched = <<>>
    /\ touched = NoPath
    /\ wp = NoWalk

NextFiles ==
    \/ \E p \in FileArgs : Touch(p)
    \/ \E p \in FileArgs : RmFile(p)
    \/ Tick
    \/ \E p \in ExtFiles : ExtAppend(p)
    \/ \E p \in ExtFiles : ExtChmod(p)
    \/ Ack

SpecFiles == InitFiles /\ [][NextFiles]_vars

----------------------------------------------------------------------------
(* walk_parents, lines 19-25: a generator.  Each next() runs it to its     *)
(* next yield, so the filesystem may change between two elements.          *)

\* Lines 20-22: the start itself is yielded when it is a directory.
WalkFirst(f, p) == IF IsDir(f, p) THEN <<p>> ELSE <<>>

\* Line 23, the loop test current_dir.samefile(current_dir.parent):
\* "raise", "same" (the loop ends) or "differ" (the parent is yielded).
WalkMore(f, cur) == SameFile(f, cur, Parent(cur))

\* Lines 23-25 run to the end from cur on an unchanging filesystem: what the
\* loop yields, and whether samefile raised at the end.
RECURSIVE WalkRest(_, _)
WalkRest(f, cur) ==
    IF WalkMore(f, cur) = "raise" THEN [out |-> <<>>, raised |-> TRUE]
    ELSE IF WalkMore(f, cur) = "same" THEN [out |-> <<>>, raised |-> FALSE]
    ELSE [WalkRest(f, Parent(cur)) EXCEPT !.out = <<Parent(cur)>> \o @]

\* walk_parents, lines 19-25, consumed in one go.
walk_parents(f, s) ==
    [WalkRest(f, PathOf(s)) EXCEPT !.out = WalkFirst(f, PathOf(s)) \o @]

A == <<"/", "a">>

WalkFs ==
    [dirs  |-> {Root, Cwd, A, Join(A, "b"), Join(Cwd, "b")},
     files |-> (Join(A, "f") :> [data |-> <<>>, mtime |-> 0]),
     links |-> <<>>,
     ro    |-> {}]

\* The strings walk_parents is called with: directories, a file, a missing
\* path, links, relative paths, a trailing slash, a ".." component.
WalkArgs ==
    { Join(A, "b"), Join(A, "f"), <<"/", "a", "b", "">>, Join(A, "none"),
      Join(A, "self"), <<"/", "a", "self", "b">>, Root, <<>>, <<"b">>, <<"b", "..">> }

\* The links other programs make and remove: /a/self -> "." and /a/b/up -> "..".
WalkLinks == (Join(A, "self") :> <<>>) @@ (<<"/", "a", "b", "up">> :> <<"..">>)

WalkBegin(s) ==
    /\ wp.pc = "off"
    /\ LET p == PathOf(s)
       IN  wp' = [pc |-> "loop", arg |-> p, cur |-> p, out |-> WalkFirst(fs, p)]
    /\ UNCHANGED <<fs, env, platform, execs, clock, cache, rets, pc, call, launched, touched>>

WalkStep ==
    /\ wp.pc = "loop"
    /\ LET t == WalkMore(fs, wp.cur)
       IN  wp' = IF t = "raise" THEN [wp EXCEPT !.pc = "raised"]
                 ELSE IF t = "same" THEN [wp EXCEPT !.pc = "done"]
                 ELSE [wp EXCEPT !.cur = Parent(@), !.out = Append(@, Parent(wp.cur))]
    /\ UNCHANGED <<fs, env, platform, execs, clock, cache, rets, pc, call, launched, touched>>

\* The consumer drops the exhausted (or failed) generator.
WalkClose ==
    /\ wp.pc \in {"done", "raised"}
    /\ wp' = NoWalk
    /\ UNCHANGED <<fs, env, platform, execs, clock, cache, rets, pc, call, launched, touched>>

ExtSymlink(p) ==
    /\ ~Exists(fs, p)
    /\ Parent(p) \in fs.dirs
    /\ fs' = [fs EXCEPT !.links = (p :> WalkLinks[p]) @@ @]
    /\ UNCHANGED <<env, platform, execs, clock, cache, rets, pc, call, launched, touched, wp>>

ExtUnlink(p) ==
    /\ p \in DOMAIN fs.links
    /\ fs' = [fs EXCEPT !.links = [q \in DOMAIN @ \ {p} |-> @[q]]]
    /\ UNCHANGED <<env, platform, execs, clock, cache, rets, pc, call, launched, touched, wp>>

InitWalk ==
    /\ fs = WalkFs
    /\ env = AllUnset
    /\ platform = "linux"
    /\ execs = {}
    /\ clock = 0
    /\ cache = NoPath
    /\ rets = {}
    /\ pc = "idle"
    /\ call = IdleCall
    /\ launched = <<>>
    /\ touched = NoPath
    /\ wp = NoWalk

NextWalk ==
    \/ \E s \in WalkArgs : WalkBegin(s)
    \/ WalkStep
    \/ WalkClose
    \/ \E p \in DOMAIN WalkLinks : ExtSymlink(p)
    \/ \E p \in DOMAIN WalkLinks : ExtUnlink(p)

SpecWalk == InitWalk /\ [][NextWalk]_vars

----------------------------------------------------------------------------
(* The process environment and the user-data-directory resolver.           *)

\* THIS_ADDON_MODULE, line 16: the first component of japanese.helpers.file_ops.
THIS_ADDON_MODULE == "japanese"

\* __file__ of the module, and the checkout it lies in.
Repo == <<"/", "r">>

ThisFile == <<"/", "r", "japanese", "helpers", "file_ops.py">>

\* The values of sys.platform.
Platforms == {"linux", "linux2", "darwin", "win32"}

\* sys.platform.startswith("linux")
StartsWithLinux(plat) == plat \in {"linux", "linux2"}

\* A string in a condition: None and "" are false.
Truthy(v) == v.set /\ v.s # <<>>

\* expanduser() left out: "~" stays a directory name.
ExpandUserNot(p) == p

\* Path.expanduser(): a leading "~" becomes the home directory.
ExpandUser(p) == IF Len(p) > 0 /\ p[1] = "~" THEN Home \o Tail(p) ELSE p

\* The Linux base with XDG_DATA_HOME forgotten.
LinuxBaseNoData(e) ==
    IF Truthy(e["XDG_STATE_HOME"]) THEN e["XDG_STATE_HOME"].s
    ELSE StrOf(Home \o <<".local", "share">>)

\* The Linux base with the two variables tried in the wrong order.
LinuxBaseDataFirst(e) ==
    IF Truthy(e["XDG_DATA_HOME"]) THEN e["XDG_DATA_HOME"].s
    ELSE IF Truthy(e["XDG_STATE_HOME"]) THEN e["XDG_STATE_HOME"].s
    ELSE StrOf(Home \o <<".local", "share">>)

\* Lines 58-62: XDG_STATE_HOME or XDG_DATA_HOME or ~/.local/share.
LinuxBase(e) ==
    IF Truthy(e["XDG_STATE_HOME"]) THEN e["XDG_STATE_HOME"].s
    ELSE IF Truthy(e["XDG_DATA_HOME"]) THEN e["XDG_DATA_HOME"].s
    ELSE StrOf(Home \o <<".local", "share">>)

\* _platform_data_home, lines 53-70.
_platform_data_home(e, plat, app_name) ==
    IF StartsWithLinux(plat)
    THEN PathOf(LinuxBase(e)) \o <<"anki-addons", app_name>>
    ELSE IF plat = "darwin"
    THEN Home \o <<"Library", "Application Support", "Anki", "Addons", app_name>>
    ELSE LET base == IF e["APPDATA"].set THEN e["APPDATA"].s
                     ELSE StrOf(Home \o <<"AppData", "Roaming">>)
         IN  PathOf(base) \o <<"Anki", "Addons", app_name>>

Found(p) == [kind |-> "found", path |-> p]

NotFound == [kind |-> "none", path |-> NoPath]

Failed == [kind |-> "raise", path |-> NoPath]

\* Lines 97-98: legacy = parent_dir / "user_files"; legacy.is_dir().
HasLegacy(f, d) == IsDir(f, Join(d, "user_files"))

\* Line 96 on: the first yielded directory that holds user_files ends the
\* loop; an exception of the generator is met only after its last element.
FirstLegacy(f, w) ==
    IF SelectSeq(w.out, LAMBDA d : HasLegacy(f, d)) # <<>>
    THEN Found(Join(Head(SelectSeq(w.out, LAMBDA d : HasLegacy(f, d))), "user_files"))
    ELSE IF w.raised THEN Failed
    ELSE NotFound

\* Lines 96-99: for parent_dir in walk_parents(__file__).
LegacySearch(f, p) == FirstLegacy(f, walk_parents(f, StrOf(p)))

\* The switch read as a truth value instead of compared with "1".
LegacyEnabledTruthy(e) == Truthy(e["AJT_USE_REPO_USER_FILES"])

\* Line 95: os.environ.get("AJT_USE_REPO_USER_FILES") == "1".
LegacyEnabled(e) == e["AJT_USE_REPO_USER_FILES"] = Str(<<"1">>)

Result(f, err, ret, trace, pdir, hit) ==
    [f |-> f, err |-> err, ret |-> ret, trace |-> trace, pdir |-> pdir, hit |-> hit]

\* Lines 86-88 once the override directory has been made (or not).
OverrideResult(p, m) ==
    Result(m.f, m.err, IF m.err = "ok" THEN p ELSE NoPath, <<"override">>, NoPath, FALSE)

\* Lines 86-88: p.mkdir(parents=True, exist_ok=True); return p.
OverrideBranch(f, p) == OverrideResult(p, MkdirParents(f, p))

\* Lines 96-101 once the walk has found a user_files directory, ended or raised.
LegacyResult(m, p, l) ==
    IF l.kind = "raise" THEN Result(m.f, "ENOENT", NoPath, <<"platform", "legacy">>, p, FALSE)
    ELSE IF l.kind = "found" THEN Result(m.f, "ok", l.path, <<"platform", "legacy">>, p, FALSE)
    ELSE Result(m.f, "ok", p, <<"platform", "legacy">>, p, FALSE)

\* Lines 92-101 once the platform directory has been made (or not).
PlatformResult(e, p, m) ==
    IF m.err # "ok" THEN Result(m.f, m.err, NoPath, <<"platform">>, p, FALSE)
    ELSE IF LegacyEnabled(e) THEN LegacyResult(m, p, LegacySearch(m.f, ThisFile))
    ELSE Result(m.f, "ok", p, <<"platform">>, p, FALSE)

\* The platform branch with the mkdir of line 92 left out.
PlatformBranchNoMkdir(f, e, p) == PlatformResult(e, p, Done(f, "ok"))

\* Lines 92-101: the platform directory is made before the legacy search runs.
PlatformBranch(f, e, p) == PlatformResult(e, p, MkdirParents(f, p))

\* The body of user_files_dir, lines 83-101.
Resolve_user_files_dir(f, e, plat) ==
    IF Truthy(e["AJT_USER_FILES_DIR"])
    THEN OverrideBranch(f, ExpandUser(PathOf(e["AJT_USER_FILES_DIR"].s)))
    ELSE PlatformBranch(f, e, _platform_data_home(e, plat, THIS_ADDON_MODULE))

\* user_files_dir without the cache: every call resolves again.
user_files_dir_uncached(c, f, e, plat) == Resolve_user_files_dir(f, e, plat)

\* user_files_dir under @functools.cache, line 73: a stored result is returned
\* without running the body; an exception stores nothing.
user_files_dir(c, f, e, plat) ==
    IF c # NoPath THEN Result(f, "ok", c, <<>>, NoPath, TRUE)
    ELSE Resolve_user_files_dir(f, e, plat)

\* The call as its caller sees it: the result recorded, the cache filled.
Completed(r) ==
    /\ fs' = r.f
    /\ pc' = Outcome(r.err)
    /\ cache' = IF r.err = "ok" THEN r.ret ELSE cache
    /\ rets' = IF r.err = "ok" THEN rets \cup {r.ret} ELSE rets
    /\ call' = [IdleCall EXCEPT !.op = "user_files_dir", !.ret = r.ret,
                                !.err = r.err, !.pre = fs, !.hit = r.hit,
                                !.trace = r.trace, !.pdir = r.pdir]

UserFilesDir ==
    /\ pc = "idle"
    /\ Completed(user_files_dir(cache, fs, env, platform))
    /\ UNCHANGED <<env, platform, execs, clock, launched, touched, wp>>

\* os.environ changes: another part of the program sets or unsets a variable.
SetEnv(n, v) ==
    /\ pc = "idle"
    /\ env[n] # v
    /\ env' = [env EXCEPT ![n] = v]
    /\ UNCHANGED <<fs, platform, execs, clock, cache, rets, pc, call, launched, touched, wp>>

\* The user_files directories a checkout may hold, closest to the module first.
LegacyDirs == { <<"/", "r", "japanese", "user_files">>, <<"/", "r", "user_files">> }

\* A regular file another program puts where a directory is wanted.
Blockers == { <<"/", "tmp", "custom">> }

IsEmptyDir(f, d) ==
    /\ d \in f.dirs
    /\ \A q \in f.dirs \cup DOMAIN f.files \cup DOMAIN f.links : q = d \/ Parent(q) # d

ExtMkdir(d) ==
    /\ pc = "idle"
    /\ ~Exists(fs, d)
    /\ Parent(d) \in fs.dirs
    /\ fs' = [fs EXCEPT !.dirs = @ \cup {d}]
    /\ UNCHANGED <<env, platform, execs, clock, cache, rets, pc, call, launched, touched, wp>>

\* rmdir of a user_files directory, or of the directory the resolver returned.
ExtRmdir(d) ==
    /\ pc = "idle"
    /\ IsEmptyDir(fs, d)
    /\ fs' = [fs EXCEPT !.dirs = @ \ {d}, !.ro = @ \ {d}]
    /\ UNCHANGED <<env, platform, execs, clock, cache, rets, pc, call, launched, touched, wp>>

ExtCreate(p) ==
    /\ pc = "idle"
    /\ ~Exists(fs, p)
    /\ Parent(p) \in fs.dirs
    /\ fs' = [fs EXCEPT !.files = (p :> [data |-> <<>>, mtime |-> 0]) @@ @]
    /\ UNCHANGED <<env, platform, execs, clock, cache, rets, pc, call, launched, touched, wp>>

\* The home directory becomes read-only, or writable again.
ExtChmodHome ==
    /\ pc = "idle"
    /\ fs' = [fs EXCEPT !.ro = IF Home \in @ THEN @ \ {Home} ELSE @ \cup {Home}]
    /\ UNCHANGED <<env, platform, execs, clock, cache, rets, pc, call, launched, touched, wp>>

DirsFs ==
    [dirs  |-> {Root, Cwd, Home, <<"/", "tmp">>, Repo, Join(Repo, "japanese"),
                Parent(ThisFile)},
     files |-> (ThisFile :> [data |-> <<"x">>, mtime |-> 0]),
     links |-> <<>>,
     ro    |-> {}]

Init ==
    /\ fs = DirsFs
    /\ env = AllUnset
    /\ platform \in Platforms
    /\ execs = {}
    /\ clock = 0
    /\ cache = NoPath
    /\ rets = {}
    /\ pc = "idle"
    /\ call = IdleCall
    /\ launched = <<>>
    /\ touched = NoPath
    /\ wp = NoWalk

Next ==
    \/ UserFilesDir
    \/ Ack
    \/ \E n \in DirVars : \E v \in EnvValues[n] : SetEnv(n, v)
    \/ \E d \in LegacyDirs : ExtMkdir(d)
    \/ \E d \in LegacyDirs \cup {cache} : ExtRmdir(d)
    \/ \E p \in Blockers : ExtCreate(p)
    \/ ExtChmodHome

Spec == Init /\ [][Next]_vars

----------------------------------------------------------------------------
(* open_file, lines 104-124.                                               *)

\* The programs that may be installed on the search path.
Programs == {"lf", "xdg-open", "st"}

\* find_executable(name) of ajt_common.utils: the path of a discoverable
\* executable of that name, or None.
find_executable(ex, name) ==
    IF name \in ex THEN Str(<<"/", "usr", "bin", name>>) ELSE Unset

\* subprocess.Popen(argv, shell=False, start_new_session=True): the child is
\* started, or FileNotFoundError is raised when argv[0], a name looked up on
\* the search path or a path, cannot be executed.
Popen(ex, argv) ==
    [how |-> "Popen", argv |-> argv,
     err |-> IF Len(argv[1]) > 0 /\ Last(argv[1]) \in ex
                /\ (Len(argv[1]) = 1 \/ IsAbs(argv[1]))
             THEN "ok" ELSE "ENOENT"]

\* f"file://{path}" and QUrl.fromLocalFile(str(path)).
FileUrl(path) == <<"file://">> \o StrOf(path)

\* QDesktopServices.openUrl(QUrl.fromLocalFile(str(path))) under no_bundled_libs().
OpenUrl(path) == [how |-> "openUrl", argv |-> <<FileUrl(path)>>, err |-> "ok"]

\* Line 110: os.getenv("FILE") or find_executable("lf").
FileManager(e, ex) == IF Truthy(e["FILE"]) THEN e["FILE"] ELSE find_executable(ex, "lf")

\* open_file with xdg-open tried before the terminal.
open_file_xdg_first(e, ex, path) ==
    IF Truthy(find_executable(ex, "xdg-open"))
    THEN Popen(ex, <<find_executable(ex, "xdg-open").s, FileUrl(path)>>)
    ELSE IF Truthy(e["TERMINAL"]) /\ Truthy(FileManager(e, ex))
    THEN Popen(ex, <<e["TERMINAL"].s, <<"-e">>, FileManager(e, ex).s, path>>)
    ELSE OpenUrl(path)

\* open_file, lines 110-124: the launch call the if/elif/else makes.
open_file(e, ex, path) ==
    IF Truthy(e["TERMINAL"]) /\ Truthy(FileManager(e, ex))
    THEN Popen(ex, <<e["TERMINAL"].s, <<"-e">>, FileManager(e, ex).s, path>>)
    ELSE IF Truthy(find_executable(ex, "xdg-open"))
    THEN Popen(ex, <<find_executable(ex, "xdg-open").s, FileUrl(path)>>)
    ELSE OpenUrl(path)

\* The files open_file is asked to show.
OpenArgs == { <<"/", "d", "f">>, <<"/", "d", "g">> }

Launch(l) ==
    /\ launched' = <<l>>
    /\ pc' = Outcome(l.err)

OpenFile(path) ==
    /\ pc = "idle"
    /\ Launch(open_file(env, execs, path))
    /\ call' = [IdleCall EXCEPT !.op = "open_file", !.arg = path]
    /\ UNCHANGED <<fs, env, platform, execs, clock, cache, rets, touched, wp>>

\* A program is installed on, or removed from, the search path.
ExtInstall(n) ==
    /\ pc = "idle"
    /\ execs' = IF n \in execs THEN execs \ {n} ELSE execs \cup {n}
    /\ UNCHANGED <<fs, env, platform, clock, cache, rets, pc, call, launched, touched, wp>>

InitOpen ==
    /\ fs = FilesFs
    /\ env = AllUnset
    /\ platform = "linux"
    /\ execs = {}
    /\ clock = 0
    /\ cache = NoPath
    /\ rets = {}
    /\ pc = "idle"
    /\ call = IdleCall
    /\ launched = <<>>
    /\ touched = NoPath
    /\ wp = NoWalk

NextOpen ==
    \/ \E path \in OpenArgs : OpenFile(path)
    \/ \E n \in {"TERMINAL", "FILE"} : \E v \in EnvValues[n] : SetEnv(n, v)
    \/ \E n \in Programs : ExtInstall(n)
    \/ Ack

SpecOpen == InitOpen /\ [][NextOpen]_vars

----------------------------------------------------------------------------
(* Claims about walk_parents, rm_file and touch.                           *)

Distinct(s) == \A i, j \in 1..Len(s) : i # j => s[i] # s[j]

\* Each element is the parent of the one before it, and strictly shorter.
Shrinking(s) ==
    \A i \in 1..(Len(s) - 1) : s[i + 1] = Parent(s[i]) /\ Len(s[i + 1]) < Len(s[i])

\* C7: for every path P, walk_parents(P) ends without raising, having yielded
\* a sequence of distinct paths, each the parent of the one before, whose last
\* element is its own parent (the root).
C7_WalkReachesRoot ==
    wp.pc \in {"done", "raised"} =>
        /\ wp.pc = "done"
        /\ wp.out # <<>>
        /\ Distinct(wp.out)
        /\ Shrinking(wp.out)
        /\ Parent(Last(wp.out)) = Last(wp.out)

\* What does hold: the enumeration ends, by exhaustion or by an exception of
\* samefile, and what was yielded is distinct and strictly shrinking.
WalkYieldsShrinking == Distinct(wp.out) /\ Shrinking(wp.out)

\* C9: rm_file(P) on a path that does not exist returns normally and changes
\* nothing; on an existing file it returns normally with P gone; any failure
\* other than absence is raised with P still present.
C9_RmFile ==
    (pc # "idle" /\ call.op = "rm_file") =>
        /\ ~LExists(call.pre, call.arg) => (pc = "returned" /\ fs = call.pre)
        /\ (LExists(call.pre, call.arg) /\ pc = "returned") => ~LExists(fs, call.arg)
        /\ pc = "raised" => (LExists(fs, call.arg) /\ fs = call.pre)

\* The data of the file p names, <<>> when it names none.
DataOf(f, p) == IF IsFile(f, p) THEN f.files[Stat(f, p).path].data ELSE <<>>

MtimeOf(f, p) == IF IsFile(f, p) THEN f.files[Stat(f, p).path].mtime ELSE 0

\* touch can create p: it is absent and its parent is a writable directory.
Creatable(f, p) ==
    LET r == Stat(f, p)
    IN  r.err = "ENOENT" /\ r.path # NoPath /\ Parent(r.path) \notin f.ro

\* C10: touch(P) creates an empty file when P is absent; when P exists its
\* content and size stay as they were and only the timestamp changes; a second
\* touch(P) does not raise, keeps the size and does not lower the modification time.
C10_Touch ==
    (pc # "idle" /\ call.op = "touch") =>
        /\ Creatable(call.pre, call.arg) =>
              /\ pc = "returned"
              /\ IsFile(fs, call.arg)
              /\ DataOf(fs, call.arg) = <<>>
              /\ fs.dirs = call.pre.dirs /\ fs.links = call.pre.links
              /\ \A q \in DOMAIN call.pre.files : fs.files[q] = call.pre.files[q]
        /\ IsFile(call.pre, call.arg) =>
              /\ DataOf(fs, call.arg) = DataOf(call.pre, call.arg)
              /\ pc = "raised" => fs = call.pre
              /\ pc = "returned" =>
                    fs = [call.pre EXCEPT !.files[Stat(call.pre, call.arg).path].mtime = clock]
        /\ call.again =>
              /\ pc = "returned"
              /\ Len(DataOf(fs, call.arg)) = Len(DataOf(call.pre, call.arg))
              /\ MtimeOf(fs, call.arg) >= MtimeOf(call.pre, call.arg)

\* Reached: a second touch of a file that has content, after the clock moved.
C10_Witness ==
    /\ pc = "returned" /\ call.op = "touch" /\ call.again
    /\ DataOf(fs, call.arg) # <<>>
    /\ MtimeOf(fs, call.arg) > MtimeOf(call.pre, call.arg)

----------------------------------------------------------------------------
(* Claims about user_files_dir and _platform_data_home.                    *)

\* The call just completed is a user_files_dir call that ran the body.
Resolved == pc # "idle" /\ call.op = "user_files_dir" /\ ~call.hit

\* The proper ancestors of p, closest first.
RECURSIVE Ancestors(_)
Ancestors(p) == IF Parent(p) = p THEN <<>> ELSE <<Parent(p)>> \o Ancestors(Parent(p))

AbsPath(p) == IF IsAbs(p) THEN p ELSE Cwd \o p

Prefixes(p) == { SubSeq(p, 1, i) : i \in 1..Len(p) }

\* mkdir -p of p can succeed: below the deepest directory that exists on the
\* way to p nothing is in the way, and that directory is writable.
CanMake(f, p) ==
    LET a == AbsPath(p)
        k == CHOOSE i \in 1..Len(a) :
                 /\ SubSeq(a, 1, i) \in f.dirs
                 /\ \A j \in (i + 1)..Len(a) : SubSeq(a, 1, j) \notin f.dirs
    IN  k = Len(a) \/ (~Exists(f, SubSeq(a, 1, k + 1)) /\ SubSeq(a, 1, k) \notin f.ro)

\* The override as a path, its home shorthand expanded.
OverridePath == 
    LET o == PathOf(env["AJT_USER_FILES_DIR"].s)
    IN  IF o # <<>> /\ Head(o) = "~" THEN Home \o Tail(o) ELSE o

PlatformDefault == _platform_data_home(env, platform, THIS_ADDON_MODULE)

\* C1: once user_files_dir has returned a path, every later call returns that
\* path without running the body again, whatever happened to the environment
\* variables and the filesystem in between.
C1_SamePathForever ==
    [][ /\ Cardinality(rets') <= 1
        /\ rets # {} => rets' = rets
        /\ (rets # {} /\ pc = "idle" /\ call'.op = "user_files_dir") =>
              (pc' = "returned" /\ call'.ret \in rets /\ fs' = fs) ]_vars

\* Reached: a later call returns the first path although the directory is gone
\* and a fresh resolution would now give another path.
C1_Witness ==
    /\ pc = "returned" /\ call.op = "user_files_dir" /\ call.hit
    /\ ~IsDir(fs, call.ret)
    /\ Resolve_user_files_dir(fs, env, platform).ret \notin {call.ret, NoPath}

\* C2: with AJT_USER_FILES_DIR set and not empty the resolution takes the
\* override branch alone: it returns the expanded override, which is then a
\* directory; the platform default is neither computed nor created and the
\* legacy search does not run, on every platform and for every other variable.
C2_OverrideWins ==
    (Resolved /\ Truthy(env["AJT_USER_FILES_DIR"])) =>
        /\ call.trace = <<"override">>
        /\ call.pdir = NoPath
        /\ fs.dirs \ call.pre.dirs \subseteq Prefixes(OverridePath)
        /\ CanMake(call.pre, OverridePath) => pc = "returned"
        /\ pc = "returned" => (call.ret = OverridePath /\ IsDir(fs, OverridePath))

\* Reached: the override, with a home shorthand, wins on Windows over APPDATA
\* and over an enabled legacy search that would find a directory.
C2_Witness ==
    /\ Resolved /\ pc = "returned"
    /\ env["AJT_USER_FILES_DIR"] = Str(<<"~", "custom">>)
    /\ platform = "win32" /\ Truthy(env["APPDATA"])
    /\ env["AJT_USE_REPO_USER_FILES"] = Str(<<"1">>)
    /\ \E d \in LegacyDirs : d \in fs.dirs
    /\ ~IsDir(call.pre, call.ret)

XdgData == <<"/", "tmp", "xdg">>

\* C3 as stated: no override, AJT_USE_REPO_USER_FILES unset, Linux and
\* XDG_DATA_HOME=/tmp/xdg give /tmp/xdg/anki-addons/<addon-name>, which exists.
C3_XdgDataHome ==
    ( /\ Resolved /\ pc = "returned"
      /\ ~env["AJT_USER_FILES_DIR"].set
      /\ ~env["AJT_USE_REPO_USER_FILES"].set
      /\ StartsWithLinux(platform)
      /\ env["XDG_DATA_HOME"] = Str(XdgData) ) =>
        /\ call.ret = XdgData \o <<"anki-addons", THIS_ADDON_MODULE>>
        /\ IsDir(fs, call.ret)

\* C3 amended: the same, provided XDG_STATE_HOME is unset or empty.
C3_XdgDataHomeNoState ==
    ( /\ Resolved /\ pc = "returned"
      /\ ~env["AJT_USER_FILES_DIR"].set
      /\ ~env["AJT_USE_REPO_USER_FILES"].set
      /\ StartsWithLinux(platform)
      /\ env["XDG_DATA_HOME"] = Str(XdgData)
      /\ ~Truthy(env["XDG_STATE_HOME"]) ) =>
        /\ call.ret = XdgData \o <<"anki-addons", THIS_ADDON_MODULE>>
        /\ IsDir(fs, call.ret)

\* Reached: the amended case, with the directory made by the call.
C3_Witness ==
    /\ Resolved /\ pc = "returned"
    /\ ~env["AJT_USER_FILES_DIR"].set
    /\ ~env["AJT_USE_REPO_USER_FILES"].set
    /\ StartsWithLinux(platform)
    /\ env["XDG_DATA_HOME"] = Str(XdgData)
    /\ ~Truthy(env["XDG_STATE_HOME"])
    /\ XdgData \notin call.pre.dirs

\* C4: on Linux _platform_data_home is base/anki-addons/app with base the
\* first available of XDG_STATE_HOME, XDG_DATA_HOME, ~/.local/share.
C4_LinuxBasePriority ==
    (Resolved /\ call.pdir # NoPath /\ StartsWithLinux(platform)) =>
        LET st == env["XDG_STATE_HOME"]
            dt == env["XDG_DATA_HOME"]
            sub == <<"anki-addons", THIS_ADDON_MODULE>>
        IN  /\ (st.set /\ st.s # <<>>) => call.pdir = PathOf(st.s) \o sub
            /\ (~(st.set /\ st.s # <<>>) /\ dt.set /\ dt.s # <<>>) =>
                  call.pdir = PathOf(dt.s) \o sub
            /\ (~(st.set /\ st.s # <<>>) /\ ~(dt.set /\ dt.s # <<>>)) =>
                  call.pdir = Home \o <<".local", "share">> \o sub

\* Reached: both variables are set and the state home is the base.
C4_Witness ==
    /\ Resolved /\ StartsWithLinux(platform)
    /\ Truthy(env["XDG_STATE_HOME"]) /\ Truthy(env["XDG_DATA_HOME"])
    /\ call.pdir = <<"/", "s", "anki-addons", "japanese">>

\* The user_files directories of the ancestors of the module, closest first.
LegacyFound(f) ==
    SelectSeq(Ancestors(ThisFile), LAMBDA d : IsDir(f, Join(d, "user_files")))

C6_ReturnedDirExists ==
    Resolved =>
        LET target == IF Truthy(env["AJT_USER_FILES_DIR"]) THEN OverridePath
                      ELSE PlatformDefault
        IN  /\ pc = "returned" => (call.ret # NoPath /\ IsDir(fs, call.ret))
            /\ (pc = "returned" /\ call.ret # target) => IsDir(call.pre, call.ret)
            /\ pc = "returned" => Prefixes(AbsPath(target)) \subseteq fs.dirs
            /\ CanMake(call.pre, target) => pc = "returned"
            /\ ~CanMake(call.pre, target) => pc = "raised"
            /\ pc = "raised" => (call.ret = NoPath /\ cache = NoPath /\ rets = {})

\* Reached: the returned directory and its parent were both made by the call.
C6_Witness ==
    /\ Resolved /\ pc = "returned"
    /\ ~IsDir(call.pre, call.ret) /\ ~IsDir(call.pre, Parent(call.ret))

\* Reached as well: a directory that cannot be made, and the call raising.
C6_RaisedReached == Resolved /\ pc = "raised" /\ call.err \in {"EACCES", "EEXIST"}

----------------------------------------------------------------------------
(* The claim about open_file.                                              *)

\* C8: open_file makes exactly one launch call, the first available of: the
\* terminal running the file manager (FILE, else a discovered lf) on the path
\* when TERMINAL is not empty and a file manager is available; xdg-open with
\* file://path when it is discoverable; the host's URL opener.  No file
\* manager with TERMINAL set falls through to the next strategy.
C8_OneLaunchByPriority ==
    (pc # "idle" /\ call.op = "open_file") =>
        /\ Len(launched) = 1
        /\ LET l == launched[1]
               term == env["TERMINAL"]
               fm == IF env["FILE"].set /\ env["FILE"].s # <<>> THEN env["FILE"].s
                     ELSE IF "lf" \in execs THEN <<"/", "usr", "bin", "lf">>
                     ELSE NoPath
               url == <<"file://">> \o call.arg
           IN  IF term.set /\ term.s # <<>> /\ fm # NoPath
               THEN l.how = "Popen" /\ l.argv = <<term.s, <<"-e">>, fm, call.arg>>
               ELSE IF "xdg-open" \in execs
               THEN l.how = "Popen" /\ l.argv = <<<<"/", "usr", "bin", "xdg-open">>, url>>
               ELSE l.how = "openUrl" /\ l.argv = <<url>>
        /\ pc = "raised" => launched[1].how = "Popen"

\* Reached: TERMINAL is set, there is no file manager, xdg-open is installed
\* and is the one launched.
C8_Witness ==
    /\ pc = "returned" /\ call.op = "open_file"
    /\ Truthy(env["TERMINAL"]) /\ ~Truthy(env["FILE"]) /\ "lf" \notin execs
    /\ launched[1].argv[1] = <<"/", "usr", "bin", "xdg-open">>

====
